---- MODULE Spec2Model ----
(***************************************************************************)
(* Model of clonedigger/logilab/common/changelog.py: the Version value,    *)
(* ChangeLogEntry, and ChangeLog (load, get_entry, add, write).            *)
(*                                                                         *)
(* A Python str is a sequence of one-character strings, so that strip,     *)
(* split, int and the '%s' formatting are computed and not assumed.  An    *)
(* optional value (None or a value) is a sequence of length 0 or 1.        *)
(***************************************************************************)
EXTENDS Integers, Sequences, FiniteSets, TLC

VARIABLES
    exists,              \* the backing file can be opened (open() does not raise IOError)
    text,                \* stream.readlines(): the lines of the backing file
    title,               \* ChangeLog.title
    additional_content,  \* ChangeLog.additional_content
    entries,             \* ChangeLog.entries
    pc,                  \* position in load / life of the object
    lineno,              \* number of lines the loop of load has consumed
    last,                \* load's local `last`: index in entries, 0 for None
    stream,              \* "unopened", "open" or "closed"
    exc,                 \* exception raised by the latest call, "none" if it returned
    call,                \* the latest call and its arguments
    ret,                 \* index in entries of the entry the latest call returned, 0 if none
    old,                 \* the model as it was when the latest call started
    out,                 \* what the latest write put on its stream
    stderr,              \* the lines printed on sys.stderr
    nops,                \* number of calls made on the constructed object
    prev,                \* the call made before the latest one
    va,                  \* a Version built from a sequence of integers
    vb,                  \* another Version, compared with va
    vcmp                 \* what comparing and printing va and vb gave

vars == <<exists, text, title, additional_content, entries, pc, lineno, last,
          stream, exc, call, ret, old, out, stderr, nops, prev, va, vb, vcmp>>

(* the part of the state that holds the Version values *)
versions == <<va, vb, vcmp>>

----------------------------------------------------------------------------
(* Optional values *)

None == <<>>

Some(x) == <<x>>

(* Python truth value of an optional str or tuple: None, '' and () are false *)
Truthy(o) == o # None /\ o[1] # <<>>

----------------------------------------------------------------------------
(* str operations used by the module *)

BULLET == <<"*">>

INDENT == <<" ", " ", " ", " ">>

NL == <<"\n">>

IsSpace(c) == c \in {" ", "\n", "\t", "\r"}

Digits == <<"0", "1", "2", "3", "4", "5", "6", "7", "8", "9">>

IsDigit(c) == \E d \in 1..10 : Digits[d] = c

DigitVal(c) == (CHOOSE d \in 1..10 : Digits[d] = c) - 1

(* str.strip() *)
strip(s) ==
    LET keep == {k \in 1..Len(s) : ~IsSpace(s[k])}
        lo == CHOOSE k \in keep : \A j \in keep : k <= j
        hi == CHOOSE k \in keep : \A j \in keep : k >= j
    IN  IF keep = {} THEN <<>> ELSE SubSeq(s, lo, hi)

RECURSIVE split_from(_, _, _, _)
split_from(s, k, cur, acc) ==
    IF k > Len(s)
    THEN IF cur = <<>> THEN acc ELSE Append(acc, cur)
    ELSE IF IsSpace(s[k])
         THEN split_from(s, k + 1, <<>>, IF cur = <<>> THEN acc ELSE Append(acc, cur))
         ELSE split_from(s, k + 1, Append(cur, s[k]), acc)

(* str.split(): the words between runs of whitespace *)
split(s) == split_from(s, 1, <<>>, <<>>)

RECURSIVE split_sep_from(_, _, _, _, _)
split_sep_from(s, sep, k, cur, acc) ==
    IF k > Len(s)
    THEN Append(acc, cur)
    ELSE IF s[k] = sep
         THEN split_sep_from(s, sep, k + 1, <<>>, Append(acc, cur))
         ELSE split_sep_from(s, sep, k + 1, Append(cur, s[k]), acc)

(* str.split(sep): empty fields are kept *)
split_sep(s, sep) == split_sep_from(s, sep, 1, <<>>, <<>>)

RECURSIVE concat(_)
(* ''.join(list) *)
concat(ss) == IF ss = <<>> THEN <<>> ELSE Head(ss) \o concat(Tail(ss))

RECURSIVE join(_, _)
(* sep.join(list) *)
join(sep, ss) ==
    IF ss = <<>> THEN <<>>
    ELSE IF Len(ss) = 1 THEN ss[1]
    ELSE ss[1] \o sep \o join(sep, Tail(ss))

(* stream.readlines(): the lines of a text, each with its terminator; the
   last line ends with the text *)
readlines(s) ==
    LET ends == {k \in 1..Len(s) : s[k] = "\n" \/ k = Len(s)}
        EndOf(i) == CHOOSE k \in ends : Cardinality({j \in ends : j <= k}) = i
    IN  [i \in 1..Cardinality(ends) |->
            SubSeq(s, IF i = 1 THEN 1 ELSE EndOf(i - 1) + 1, EndOf(i))]

----------------------------------------------------------------------------
(* int(str) and str(int) *)

Unsigned(w) == IF w # <<>> /\ w[1] \in {"+", "-"} THEN Tail(w) ELSE w

(* int(w) returns: an optional sign, then digits, single underscores between digits *)
IsInt(w) ==
    LET u == Unsigned(w)
    IN  /\ u # <<>>
        /\ \A k \in 1..Len(u) : IsDigit(u[k]) \/ u[k] = "_"
        /\ IsDigit(u[1]) /\ IsDigit(u[Len(u)])
        /\ \A k \in 1..(Len(u) - 1) : ~(u[k] = "_" /\ u[k + 1] = "_")

RECURSIVE DigitsVal(_, _)
DigitsVal(u, acc) ==
    IF u = <<>> THEN acc
    ELSE IF u[1] = "_" THEN DigitsVal(Tail(u), acc)
    ELSE DigitsVal(Tail(u), 10 * acc + DigitVal(u[1]))

int(w) == IF w[1] = "-" THEN 0 - DigitsVal(Unsigned(w), 0) ELSE DigitsVal(Unsigned(w), 0)

RECURSIVE NatStr(_)
NatStr(n) == IF n < 10 THEN <<Digits[n + 1]>> ELSE Append(NatStr(n \div 10), Digits[(n % 10) + 1])

(* str(i) of an int *)
IntStr(n) == IF n < 0 THEN <<"-">> \o NatStr(0 - n) ELSE NatStr(n)

----------------------------------------------------------------------------
(* class Version(tuple) *)

(* Version.__new__ raises ValueError: some field of the string is no int *)
Version_raises(versionstr) ==
    \E k \in 1..Len(split_sep(versionstr, ".")) : ~IsInt(split_sep(versionstr, ".")[k])

(* Version.__new__ on a str: the tuple of its fields *)
Version(versionstr) ==
    LET fields == split_sep(versionstr, ".")
    IN  [k \in 1..Len(fields) |-> int(fields[k])]

(* Version.__new__ on a sequence of integers: the tuple of its items *)
Version_of(parsed) == parsed

(* Version.__str__ *)
Version_str(v) == join(<<".">>, [k \in 1..Len(v) |-> IntStr(v[k])])

(* a comparison that puts the shorter Version first *)
Version_lt_shorter_first(a, b) ==
    \/ Len(a) < Len(b)
    \/ /\ Len(a) = Len(b)
       /\ \E k \in 1..Len(a) : a[k] < b[k] /\ \A j \in 1..(k - 1) : a[j] = b[j]

RECURSIVE Version_lt(_, _)
(* a < b of two Versions: the comparison Version inherits from tuple, item by
   item from the left, the shorter one first when it is a prefix *)
Version_lt(a, b) ==
    IF b = <<>> THEN FALSE
    ELSE IF a = <<>> THEN TRUE
    ELSE IF a[1] # b[1] THEN a[1] < b[1]
    ELSE Version_lt(Tail(a), Tail(b))

(* a == b of two Versions: the equality Version inherits from tuple *)
Version_eq(a, b) == Len(a) = Len(b) /\ \A k \in 1..Len(a) : a[k] = b[k]

----------------------------------------------------------------------------
(* class ChangeLogEntry *)

(* ChangeLogEntry.__init__ raises: a true version that Version rejects *)
ChangeLogEntry_raises(version) == Truthy(version) /\ Version_raises(version[1])

(* ChangeLogEntry.__init__(date, version) *)
ChangeLogEntry(date, version) ==
    [date |-> date,
     version |-> IF Truthy(version) THEN Some(Version(version[1])) ELSE None,
     messages |-> <<>>]

(* an add_message that opens the group and leaves the line out *)
add_message_no_line(e, msg) == [e EXCEPT !.messages = Append(@, <<>>)]

(* an add_message that assigns the list of messages *)
add_message_replacing(e, msg) == [e EXCEPT !.messages = <<<<msg>>>>]

(* ChangeLogEntry.add_message *)
add_message(e, msg) == [e EXCEPT !.messages = Append(@, <<msg>>)]

(* ChangeLogEntry.complete_latest_message: the entry afterwards, whether the
   diagnostic was printed, and the exception raised ("none" if it returned) *)
complete_latest_message(e, msg_suite) ==
    IF e.messages = <<>>
    THEN [entry |-> e, printed |-> TRUE, exc |-> "IndexError"]
    ELSE [entry |-> [e EXCEPT !.messages[Len(e.messages)] = Append(@, msg_suite)],
          printed |-> FALSE, exc |-> "none"]

(* ChangeLogEntry.write: the header line *)
header(e) ==
    (IF Truthy(e.date) THEN e.date[1] ELSE <<>>) \o <<" ", " ", "-", "-", " ", " ">>
        \o (IF Truthy(e.version) THEN Version_str(e.version[1]) ELSE <<>>) \o NL

(* ChangeLogEntry.write: one message group *)
message_text(msg) == INDENT \o BULLET \o <<" ">> \o msg[1] \o NL \o concat(Tail(msg))

(* ChangeLogEntry.write *)
ChangeLogEntry_write(e) ==
    header(e) \o concat([k \in 1..Len(e.messages) |-> message_text(e.messages[k])])

----------------------------------------------------------------------------
(* class ChangeLog *)

(* a create that counts as true as soon as it is given *)
CreateTruthy_when_given(create) == create # "None"

(* the truth value of get_entry's create argument: None, False or True *)
CreateTruthy(create) == create = "True"

(* a guard that fails only when a version is asked for and create is false *)
raises_no_entry_and(es, version, create) ==
    es = <<>> /\ (version # <<>> /\ ~CreateTruthy(create))

(* get_entry, lines 144-146: no entry, and a version asked for or create false *)
raises_no_entry(es, version, create) ==
    es = <<>> /\ (version # <<>> \/ ~CreateTruthy(create))

(* a new head whatever the first entry is *)
inserts_head_always(es, create) == create # "None"

(* a new head only when create is true *)
inserts_head_when_true(es, create) == Truthy(es[1].version) /\ CreateTruthy(create)

(* get_entry, line 149: a new head entry is inserted *)
inserts_head(es, create) == Truthy(es[1].version) /\ create # "None"

(* a NoEntry raised after the entry of line 147 was appended *)
no_entry_after_append(es) ==
    [entries |-> Append(es, ChangeLogEntry(None, None)), ret |-> 0, exc |-> "NoEntry"]

(* get_entry, lines 145-146: NoEntry is raised, before any entry is made *)
no_entry(es) == [entries |-> es, ret |-> 0, exc |-> "NoEntry"]

(* get_entry, line 152: self.version_class is looked up on a ChangeLog, whose
   class (lines 120-123) defines entry_class and no version_class *)
has_version_class == FALSE

(* get_entry, line 154: entry.version == version *)
version_matches(e, v) == e.version = Some(v)

(* ChangeLog.get_entry(version, create): entries afterwards, the index of the
   entry returned (0 if none) and the exception raised ("none" if it returned) *)
get_entry(es, version, create) ==
    IF raises_no_entry(es, version, create)
    THEN no_entry(es)
    ELSE LET es1 == IF es = <<>> THEN <<ChangeLogEntry(None, None)>> ELSE es
         IN  IF version = <<>>
             THEN IF inserts_head(es1, create)
                  THEN [entries |-> <<ChangeLogEntry(None, None)>> \o es1,
                        ret |-> 1, exc |-> "none"]
                  ELSE [entries |-> es1, ret |-> 1, exc |-> "none"]
             ELSE IF ~has_version_class
                  THEN [entries |-> es1, ret |-> 0, exc |-> "AttributeError"]
             ELSE IF Version_raises(version)
                  THEN [entries |-> es1, ret |-> 0, exc |-> "ValueError"]
                  ELSE LET hits == {k \in 1..Len(es1) : version_matches(es1[k], Version(version))}
                       IN  IF hits = {}
                           THEN [entries |-> es1, ret |-> 0, exc |-> "EntryNotFound"]
                           ELSE [entries |-> es1,
                                 ret |-> CHOOSE k \in hits : \A j \in hits : k <= j,
                                 exc |-> "none"]

(* ChangeLog.add(msg, create) *)
add(es, msg, create) ==
    LET got == get_entry(es, <<>>, create)
    IN  IF got.exc # "none" THEN got
        ELSE [got EXCEPT !.entries[got.ret] = add_message(@, msg)]

(* load, line 173: the line starts the current entry *)
is_current_marker(words) == Len(words) = 1 /\ words[1] = <<"-", "-">>

(* a test of the first word in place of the middle one *)
is_dated_marker_first_word(words) == Len(words) = 3 /\ words[1] = <<"-", "-">>

(* load, line 176: the line starts a dated entry *)
is_dated_marker(words) == Len(words) = 3 /\ words[2] = <<"-", "-">>

(* load, line 183: the line is a message line *)
is_bullet(sline) == sline # <<>> /\ <<sline[1]>> = BULLET

(* a title made of the trimmed lines *)
title_append_stripped(t, line) == t \o strip(line)

(* load, line 182: the title with one more line *)
title_append(t, line) == t \o line

(* a test of the messages of all the entries loaded so far *)
any_has_message(m) == \E k \in 1..Len(m.entries) : m.entries[k].messages # <<>>

(* load, line 185: the entry being loaded has a message *)
last_has_message(m) == m.entries[m.last].messages # <<>>

(* load, line 186: the line completes the latest message of the entry being
   loaded; an exception of complete_latest_message leaves load *)
load_continuation(m, line) ==
    LET done == complete_latest_message(m.entries[m.last], line)
    IN  [m EXCEPT !.entries[m.last] = done.entry, !.exc = done.exc]

(* One iteration of the loop of load on the record
   m = [title, additional_content, entries, last, exc] *)
load_line(m, line) ==
    LET sline == strip(line)
        words == split(sline)
    IN  IF is_current_marker(words)
        THEN [m EXCEPT !.entries = Append(@, ChangeLogEntry(None, None)),
                       !.last = Len(m.entries) + 1]
        ELSE IF is_dated_marker(words)
        THEN IF ChangeLogEntry_raises(Some(words[3]))
             THEN [m EXCEPT !.exc = "ValueError"]
             ELSE [m EXCEPT !.entries = Append(@, ChangeLogEntry(Some(words[1]), Some(words[3]))),
                            !.last = Len(m.entries) + 1]
        ELSE IF m.last = 0
        THEN IF sline = <<>> THEN m ELSE [m EXCEPT !.title = title_append(@, line)]
        ELSE IF is_bullet(sline)
        THEN [m EXCEPT !.entries[m.last] = add_message(@, strip(Tail(sline)))]
        ELSE IF last_has_message(m)
        THEN load_continuation(m, line)
        ELSE [m EXCEPT !.additional_content = @ \o line]

RECURSIVE load_lines(_, _)
(* The loop of load: it stops at the first line that raises *)
load_lines(m, lines) ==
    IF lines = <<>> \/ m.exc # "none" THEN m
    ELSE load_lines(load_line(m, Head(lines)), Tail(lines))

(* ChangeLog.__init__ followed by load on an opened file holding `lines` *)
load(title0, lines) ==
    load_lines([title |-> title0, additional_content |-> <<>>, entries |-> <<>>,
                last |-> 0, exc |-> "none"], lines)

(* ChangeLog.format_title *)
format_title(t) == strip(t) \o NL \o NL

(* ChangeLog.write *)
ChangeLog_write(t, es) ==
    format_title(t) \o concat([k \in 1..Len(es) |-> ChangeLogEntry_write(es[k])])

----------------------------------------------------------------------------
(* The inputs *)

(* Lines of a file that end with their terminator *)
TitleLine == <<" ", "t", " ", "\n">>

BlankLine == <<"\n">>

CurrentLine == <<" ", "-", "-", "\n">>

DatedLine == <<"d", " ", "-", "-", " ", "1", ".", "2", "\n">>

PaddedLine == <<"e", " ", " ", "-", "-", " ", " ", "0", "1", ".", "2", ".", "0", "\n">>

BadVersionLine == <<"d", " ", "-", "-", " ", "x", "\n">>

BulletLine == <<" ", " ", "*", " ", "m", "\n">>

BulletDashLine == <<"*", " ", "-", "-", " ", "m", "\n">>

(* a message line whose message is "-- 1": no space follows the bullet *)
DashMessageLine == <<"*", "-", "-", " ", "1", "\n">>

Lines ==
    {TitleLine, BlankLine, CurrentLine, DatedLine, PaddedLine, BadVersionLine,
     BulletLine, BulletDashLine, DashMessageLine}

(* Last lines of a file that does not end with a line terminator *)
OpenLines == {<<"c">>, <<"*", "m">>, <<"d", " ", "-", "-", " ", "1">>}

(* The lines of the files the constructed logs are loaded from *)
LogLines == {TitleLine, CurrentLine, DatedLine, PaddedLine, BulletLine}

(* The sample of the module's docstring, lines 20 to 32 *)
SampleText ==
    << <<"C", "h", "a", "n", "g", "e", " ", "l", "o", "g", " ", "f", "o", "r", " ", "p", "r", "o", "j", "e", "c", "t", " ", "Y", "o", "o", "\n">>,
       <<"=", "=", "=", "=", "=", "=", "=", "=", "=", "=", "=", "=", "=", "=", "=", "=", "=", "=", "=", "=", "=", "=", "=", "=", "=", "=", "\n">>,
       <<"\n">>,
       <<" ", "-", "-", "\n">>,
       <<" ", " ", " ", " ", "*", " ", "a", "d", "d", " ", "a", " ", "n", "e", "w", " ", "f", "u", "n", "c", "t", "i", "o", "n", "n", "a", "l", "i", "t", "y", "\n">>,
       <<"\n">>,
       <<"2", "0", "0", "2", "-", "0", "2", "-", "0", "1", " ", "-", "-", " ", "0", ".", "1", ".", "1", "\n">>,
       <<" ", " ", " ", " ", "*", " ", "f", "i", "x", " ", "b", "u", "g", " ", "#", "4", "3", "5", "4", "5", "4", "\n">>,
       <<" ", " ", " ", " ", "*", " ", "f", "i", "x", " ", "b", "u", "g", " ", "#", "4", "3", "4", "3", "5", "6", "\n">>,
       <<" ", " ", " ", " ", "\n">>,
       <<"2", "0", "0", "2", "-", "0", "1", "-", "0", "1", " ", "-", "-", " ", "0", ".", "1", "\n">>,
       <<" ", " ", " ", " ", "*", " ", "i", "n", "i", "t", "i", "a", "l", " ", "r", "e", "l", "e", "a", "s", "e", "\n">>,
       <<" ", " ", " ", " ", "\n">> >>

(* An entry with a message, then a current entry that gets a line before
   its first message and a line after it *)
RoutingText == <<DatedLine, BulletLine, CurrentLine, TitleLine, BulletLine, TitleLine>>

(* The texts longer than MaxLines *)
LongTexts == {SampleText, RoutingText}

(* The title argument of ChangeLog.__init__: its default and a given title *)
Titles == {<<>>, <<"T", "\n">>}

MaxLines == 3

MaxLogLines == 2

MaxOps == 2

(* readlines() of the files of at most n lines: only the last line of a file
   can lack its terminator *)
Texts(n, ended, open) ==
    {<<>>} \cup UNION {
        {body \o <<l>> : body \in [1..(k - 1) -> ended], l \in ended \cup open}
        : k \in 1..n}

(* The arguments of the calls *)
Creates == {"None", "False", "True"}

VersionArgs == {<<>>, <<"1", ".", "2">>, <<"1", ".", "2", ".", "0">>}

Messages == {<<"f", "i", "x">>, <<"-", "-", " ", "1">>}

(* The entries given to add_entry *)
EntryArgs == {ChangeLogEntry(None, None), ChangeLogEntry(Some(<<"d">>), Some(<<"1", ".", "2">>))}

(* The items of the Versions compared *)
Components == {0, 1, 2, 9}

MaxVersionLen == 3

Tuples == UNION {[1..n -> Components] : n \in 0..MaxVersionLen}

NoCmp == [done |-> FALSE, lt |-> FALSE, gt |-> FALSE, eq |-> FALSE, str |-> <<>>, parsed |-> <<>>]

Suites == {<<" ", "s", "\n">>}

NoCall == [op |-> "none", version |-> <<>>, create |-> "None", msg |-> <<>>, idx |-> 0]

Snapshot == [title |-> title, additional_content |-> additional_content, entries |-> entries]

----------------------------------------------------------------------------
(* load, step by step *)

(* ChangeLog.__init__, lines 126-129, with the title it was given: load has
   not started and no call was made *)
Constructed ==
    /\ additional_content = <<>>
    /\ entries = <<>>
    /\ pc = "init"
    /\ lineno = 0
    /\ last = 0
    /\ stream = "unopened"
    /\ exc = "none"
    /\ call = NoCall
    /\ ret = 0
    /\ old = [title |-> title, additional_content |-> <<>>, entries |-> <<>>]
    /\ out = <<>>
    /\ stderr = <<>>
    /\ nops = 0
    /\ prev = NoCall

(* no Version is compared *)
NoVersions == va = <<>> /\ vb = <<>> /\ vcmp = NoCmp

(* ChangeLog.__init__ up to the call of load *)
InitLoad ==
    /\ exists \in BOOLEAN
    /\ text \in IF exists THEN Texts(MaxLines, Lines, OpenLines) \cup LongTexts ELSE {<<>>}
    /\ title \in Titles
    /\ Constructed
    /\ NoVersions

(* a load that lets the IOError of open() through *)
LoadOpen_unguarded ==
    /\ pc = "init"
    /\ IF exists
       THEN stream' = "open" /\ pc' = "loop" /\ exc' = exc
       ELSE stream' = stream /\ pc' = "raised" /\ exc' = "IOError"
    /\ UNCHANGED <<prev, versions>>
    /\ UNCHANGED <<exists, text, title, additional_content, entries, lineno, last,
                   call, ret, old, out, stderr, nops>>

(* load, lines 165-169: open the file, return if it cannot be opened *)
LoadOpen ==
    /\ pc = "init"
    /\ IF exists
       THEN stream' = "open" /\ pc' = "loop"
       ELSE stream' = stream /\ pc' = "done"
    /\ UNCHANGED <<prev, versions>>
    /\ UNCHANGED <<exists, text, title, additional_content, entries, lineno, last,
                   exc, call, ret, old, out, stderr, nops>>

(* load, lines 170-188: one iteration of the loop; an exception leaves load *)
LoadLine ==
    /\ pc = "loop"
    /\ lineno < Len(text)
    /\ LET m == load_line([title |-> title, additional_content |-> additional_content,
                           entries |-> entries, last |-> last, exc |-> "none"],
                          text[lineno + 1])
       IN  /\ title' = m.title
           /\ additional_content' = m.additional_content
           /\ entries' = m.entries
           /\ last' = m.last
           /\ exc' = m.exc
           /\ pc' = IF m.exc = "none" THEN "loop" ELSE "raised"
    /\ lineno' = lineno + 1
    /\ UNCHANGED <<prev, versions>>
    /\ UNCHANGED <<exists, text, stream, call, ret, old, out, stderr, nops>>

(* load, line 189: the loop is over, close the stream and return *)
LoadClose ==
    /\ pc = "loop"
    /\ lineno = Len(text)
    /\ stream' = "closed"
    /\ pc' = "done"
    /\ UNCHANGED <<prev, versions>>
    /\ UNCHANGED <<exists, text, title, additional_content, entries, lineno, last,
                   exc, call, ret, old, out, stderr, nops>>

----------------------------------------------------------------------------
(* The calls on a constructed ChangeLog *)

(* ChangeLog.get_entry(version, create) *)
GetEntry ==
    /\ pc = "done"
    /\ nops < MaxOps
    /\ \E version \in VersionArgs, create \in Creates :
          LET got == get_entry(entries, version, create)
          IN  /\ entries' = got.entries
              /\ ret' = got.ret
              /\ exc' = got.exc
              /\ call' = [NoCall EXCEPT !.op = "get_entry", !.version = version,
                                        !.create = create]
    /\ old' = Snapshot
    /\ nops' = nops + 1
    /\ prev' = call
    /\ UNCHANGED versions
    /\ UNCHANGED <<exists, text, title, additional_content, pc, lineno, last, stream,
                   out, stderr>>

(* ChangeLog.add(msg, create) *)
Add ==
    /\ pc = "done"
    /\ nops < MaxOps
    /\ \E msg \in Messages, create \in Creates :
          LET got == add(entries, msg, create)
          IN  /\ entries' = got.entries
              /\ ret' = 0
              /\ exc' = got.exc
              /\ call' = [NoCall EXCEPT !.op = "add", !.msg = msg, !.create = create]
    /\ old' = Snapshot
    /\ nops' = nops + 1
    /\ prev' = call
    /\ UNCHANGED versions
    /\ UNCHANGED <<exists, text, title, additional_content, pc, lineno, last, stream,
                   out, stderr>>

(* ChangeLogEntry.add_message(msg) on an entry of the log *)
AddMessage ==
    /\ pc = "done"
    /\ nops < MaxOps
    /\ \E idx \in 1..Len(entries), msg \in Messages :
          /\ entries' = [entries EXCEPT ![idx] = add_message(@, msg)]
          /\ call' = [NoCall EXCEPT !.op = "add_message", !.msg = msg, !.idx = idx]
    /\ ret' = 0
    /\ exc' = "none"
    /\ old' = Snapshot
    /\ nops' = nops + 1
    /\ prev' = call
    /\ UNCHANGED versions
    /\ UNCHANGED <<exists, text, title, additional_content, pc, lineno, last, stream,
                   out, stderr>>

(* ChangeLogEntry.complete_latest_message(msg_suite) on an entry of the log *)
CompleteLatestMessage ==
    /\ pc = "done"
    /\ nops < MaxOps
    /\ \E idx \in 1..Len(entries), msg_suite \in Suites :
          LET done == complete_latest_message(entries[idx], msg_suite)
          IN  /\ entries' = [entries EXCEPT ![idx] = done.entry]
              /\ exc' = done.exc
              /\ stderr' = IF done.printed THEN Append(stderr, msg_suite) ELSE stderr
              /\ call' = [NoCall EXCEPT !.op = "complete_latest_message",
                                        !.msg = msg_suite, !.idx = idx]
    /\ ret' = 0
    /\ old' = Snapshot
    /\ nops' = nops + 1
    /\ prev' = call
    /\ UNCHANGED versions
    /\ UNCHANGED <<exists, text, title, additional_content, pc, lineno, last, stream, out>>

(* ChangeLog.add_entry(entry) *)
AddEntry ==
    /\ pc = "done"
    /\ nops < MaxOps
    /\ \E entry \in EntryArgs :
          /\ entries' = Append(entries, entry)
          /\ call' = [NoCall EXCEPT !.op = "add_entry"]
    /\ ret' = 0
    /\ exc' = "none"
    /\ old' = Snapshot
    /\ nops' = nops + 1
    /\ prev' = call
    /\ UNCHANGED versions
    /\ UNCHANGED <<exists, text, title, additional_content, pc, lineno, last, stream,
                   out, stderr>>

(* ChangeLog.add(msg, create=True) *)
AddCreating == Add /\ call'.create = "True"

(* ChangeLog.write(stream) *)
Write ==
    /\ pc = "done"
    /\ nops < MaxOps
    /\ out' = ChangeLog_write(title, entries)
    /\ call' = [NoCall EXCEPT !.op = "write"]
    /\ ret' = 0
    /\ exc' = "none"
    /\ old' = Snapshot
    /\ nops' = nops + 1
    /\ prev' = call
    /\ UNCHANGED versions
    /\ UNCHANGED <<exists, text, title, additional_content, entries, pc, lineno, last,
                   stream, stderr>>

----------------------------------------------------------------------------
(* The specifications *)

(* The state after ChangeLog(changelog_file) returned: the file is absent, or
   load went through all its lines *)
Init ==
    /\ exists \in BOOLEAN
    /\ text \in IF exists THEN Texts(MaxLogLines, LogLines, {}) ELSE {<<>>}
    /\ load(<<>>, text).exc = "none"
    /\ title = load(<<>>, text).title
    /\ additional_content = load(<<>>, text).additional_content
    /\ entries = load(<<>>, text).entries
    /\ pc = "done"
    /\ lineno = Len(text)
    /\ last = load(<<>>, text).last
    /\ stream = IF exists THEN "closed" ELSE "unopened"
    /\ exc = "none"
    /\ call = NoCall
    /\ ret = 0
    /\ old = [title |-> <<>>, additional_content |-> <<>>, entries |-> <<>>]
    /\ out = <<>>
    /\ stderr = <<>>
    /\ nops = 0
    /\ prev = NoCall
    /\ NoVersions

Next == GetEntry \/ Add \/ AddMessage \/ CompleteLatestMessage \/ Write

Spec == Init /\ [][Next]_vars

NextLoad == LoadOpen \/ LoadLine \/ LoadClose \/ Write

LoadSpec == InitLoad /\ [][NextLoad]_vars

(* A log loaded line by line and every call on it, add_entry included *)
InitFull ==
    /\ exists \in BOOLEAN
    /\ text \in IF exists THEN Texts(MaxLogLines, LogLines, {}) ELSE {<<>>}
    /\ title = <<>>
    /\ Constructed
    /\ NoVersions

NextFull ==
    \/ LoadOpen \/ LoadLine \/ LoadClose
    \/ GetEntry \/ Add \/ AddEntry \/ AddMessage \/ CompleteLatestMessage \/ Write

FullSpec == InitFull /\ [][NextFull]_vars

(* A loaded log, add(msg, create=True) calls, then write *)
NextRewrite == AddCreating \/ Write

RewriteSpec == Init /\ [][NextRewrite]_vars

(* Two Versions built from sequences of integers, compared and printed *)
InitVersions ==
    /\ exists = FALSE
    /\ text = <<>>
    /\ title = <<>>
    /\ Constructed
    /\ va \in Tuples
    /\ vb \in Tuples
    /\ vcmp = NoCmp

(* Version(va) < Version(vb), ==, >, str(Version(va)) and Version(str(Version(va))) *)
CompareVersions ==
    /\ ~vcmp.done
    /\ vcmp' = [done |-> TRUE,
                lt |-> Version_lt(Version_of(va), Version_of(vb)),
                gt |-> Version_lt(Version_of(vb), Version_of(va)),
                eq |-> Version_eq(Version_of(va), Version_of(vb)),
                str |-> Version_str(Version_of(va)),
                parsed |-> IF Version_raises(Version_str(Version_of(va))) THEN <<>>
                           ELSE Version(Version_str(Version_of(va)))]
    /\ UNCHANGED <<exists, text, title, additional_content, entries, pc, lineno, last,
                   stream, exc, call, ret, old, out, stderr, nops, prev, va, vb>>

NextVersions == CompareVersions

VersionSpec == InitVersions /\ [][NextVersions]_vars

----------------------------------------------------------------------------
(* Properties of load and write, checked under LoadSpec *)

EmptyEntry == [date |-> None, version |-> None, messages |-> <<>>]

(* the trimmed line is the single word -- *)
BareMarker(line) == strip(line) = <<"-", "-">>

(* the line tokenizes to exactly three words, the middle one -- *)
DatedMarker(line) == Len(split(line)) = 3 /\ split(line)[2] = <<"-", "-">>

(* the bare -- lines of the text are at most one, and it precedes every
   dated marker *)
CurrentMarkerLeads(lines) ==
    \A k \in 1..Len(lines) :
        BareMarker(lines[k]) =>
            \A j \in 1..(k - 1) : ~BareMarker(lines[j]) /\ ~DatedMarker(lines[j])

(* a well-formed log text: a title, at most one current entry that leads,
   dated entries whose versions are dotted integers, and under each entry
   its message lines and their continuation lines *)
WellFormed(lines) ==
    /\ CurrentMarkerLeads(lines)
    /\ \A k \in 1..Len(lines) :
          DatedMarker(lines[k]) =>
              LET fields == split_sep(split(lines[k])[3], ".")
              IN  \A f \in 1..Len(fields) :
                      fields[f] # <<>> /\ \A c \in 1..Len(fields[f]) : IsDigit(fields[f][c])

(* C1: load of a well-formed text followed by write produces a text that
   carries the trimmed title and, in order, every entry's date, version,
   message first lines and verbatim continuation lines: loading the written
   text again gives the same entries and the same trimmed title, and only
   additional_content is gone. *)
RoundTrip ==
    (exists /\ call.op = "write" /\ WellFormed(text)) =>
        LET again == load(<<>>, readlines(out))
        IN  /\ again.exc = "none"
            /\ strip(again.title) = strip(title)
            /\ again.entries = entries
            /\ again.additional_content = <<>>

(* C3: load raises no exception, whatever the lines are. *)
LoadNeverRaises == pc # "raised"

(* C9: when load gives control back after opening the stream, whether it
   returned or raised, the stream is closed. *)
ClosedOnReturn == (exists /\ pc \in {"done", "raised"}) => stream = "closed"

RECURSIVE MarkerEntries(_)
(* date and version of the entry each marker line of a text stands for *)
MarkerEntries(lines) ==
    IF lines = <<>> THEN <<>>
    ELSE IF BareMarker(Head(lines))
         THEN <<[date |-> None, version |-> None]>> \o MarkerEntries(Tail(lines))
    ELSE IF DatedMarker(Head(lines))
         THEN <<[date |-> Some(split(Head(lines))[1]),
                 version |-> Some(Version(split(Head(lines))[3]))]>>
              \o MarkerEntries(Tail(lines))
    ELSE MarkerEntries(Tail(lines))

(* C10: after load returned, entries holds one entry per marker line of the
   input, in file order, with the marker's date and version (none for a bare
   -- line); the docstring sample gives three entries: the current one, 0.1.1
   with two message groups and 0.1 with one. *)
EntriesAreMarkers ==
    (exists /\ pc = "done") =>
        /\ Len(entries) = Len(MarkerEntries(text))
        /\ \A k \in 1..Len(entries) :
              /\ entries[k].date = MarkerEntries(text)[k].date
              /\ entries[k].version = MarkerEntries(text)[k].version
        /\ text = SampleText =>
              /\ Len(entries) = 3
              /\ entries[1].version = None
              /\ entries[2].version = Some(<<0, 1, 1>>) /\ Len(entries[2].messages) = 2
              /\ entries[3].version = Some(<<0, 1>>) /\ Len(entries[3].messages) = 1

(* C10, witness: load returned on a text with a bare marker, a dated marker
   and a line that is no marker. *)
EntriesAreMarkersWitness ==
    /\ exists /\ pc = "done" /\ call.op = "none"
    /\ Len(text) > Len(entries)
    /\ \E j, k \in 1..Len(entries) : entries[j].version = None /\ entries[k].version # None

----------------------------------------------------------------------------
(* Properties of the calls on a constructed log, checked under Spec *)

(* C2, as claimed: after load of any text and any get_entry and add calls, an
   entry with no version is the first of entries. *)
VersionlessIsFirst == \A k \in 1..Len(entries) : entries[k].version = None => k = 1

(* C2, amended: when the loaded text has at most one bare -- line and it
   precedes every dated marker, then after any get_entry and add calls an
   entry with no version is the first of entries. *)
VersionlessIsFirstOfWellFormed == CurrentMarkerLeads(text) => VersionlessIsFirst

(* C2, witness: add(msg, create=True) on a log whose head had a version put
   a versionless entry in front of it. *)
VersionlessIsFirstWitness ==
    /\ CurrentMarkerLeads(text)
    /\ call.op = "add" /\ exc = "none"
    /\ old.entries # <<>> /\ old.entries[1].version # None
    /\ Len(entries) = Len(old.entries) + 1
    /\ entries[1].version = None

(* a fresh ChangeLog: no backing file, no entry *)
Fresh(m) == ~exists /\ m.entries = <<>>

(* C4, as claimed: add(msg) with create unset on a fresh ChangeLog raises
   nothing and leaves exactly one entry, current, holding the group [msg]. *)
AddOnFreshCreates ==
    (call.op = "add" /\ call.create = "None" /\ Fresh(old)) =>
        /\ exc = "none"
        /\ entries = <<[EmptyEntry EXCEPT !.messages = <<<<call.msg>>>>]>>

(* C4, amended: on a fresh ChangeLog add(msg) with create unset or false
   raises NoEntry and leaves entries empty; add(msg, create=True) raises
   nothing and leaves exactly one entry, current, holding the group [msg]. *)
AddOnFreshNeedsCreate ==
    (call.op = "add" /\ Fresh(old)) =>
        IF call.create = "True"
        THEN /\ exc = "none"
             /\ entries = <<[EmptyEntry EXCEPT !.messages = <<<<call.msg>>>>]>>
        ELSE exc = "NoEntry" /\ entries = <<>>

(* C4, witness: add(msg, create=True) on a fresh ChangeLog returned. *)
AddOnFreshWitness ==
    /\ call.op = "add" /\ call.create = "True" /\ Fresh(old)
    /\ exc = "none" /\ Len(entries) = 1

(* C5: get_entry on a log with no entry fails with NoEntry when a version is
   asked for or create is not true, and otherwise appends one entry with no
   date, no version and no message, and returns it. *)
GetEntryOnEmpty ==
    (call.op = "get_entry" /\ old.entries = <<>>) =>
        IF call.version # <<>> \/ call.create # "True"
        THEN exc = "NoEntry" /\ entries = <<>> /\ ret = 0
        ELSE exc = "none" /\ entries = <<EmptyEntry>> /\ ret = 1

(* C5, witness: get_entry(create=True) on an empty log returned the entry it
   made. *)
GetEntryOnEmptyWitness ==
    /\ call.op = "get_entry" /\ old.entries = <<>>
    /\ call.version = <<>> /\ call.create = "True"
    /\ ret = 1 /\ Len(entries) = 1

(* the entries of es whose version has the components of the tuple v *)
SameVersion(es, v) ==
    {k \in 1..Len(es) :
        /\ es[k].version # None
        /\ Len(es[k].version[1]) = Len(v)
        /\ \A c \in 1..Len(v) : es[k].version[1][c] = v[c]}

(* C6: get_entry(version=v) on a log with entries returns the first entry
   whose version has the length and the components of Version(v), and fails
   with EntryNotFound when there is none, whatever create is. *)
GetEntryByVersion ==
    (call.op = "get_entry" /\ call.version # <<>> /\ old.entries # <<>>) =>
        LET hits == SameVersion(old.entries, Version(call.version))
        IN  IF hits = {}
            THEN exc = "EntryNotFound" /\ ret = 0
            ELSE exc = "none" /\ ret \in hits /\ \A k \in hits : ret <= k

(* C7: get_entry with no version on a log with entries puts a new empty entry
   in front and returns it exactly when the first entry has a version and
   create was given (true or false); otherwise it returns the first entry and
   leaves entries as they were. *)
GetCurrentEntry ==
    (call.op = "get_entry" /\ call.version = <<>> /\ old.entries # <<>>) =>
        /\ exc = "none" /\ ret = 1
        /\ IF old.entries[1].version # None /\ call.create # "None"
           THEN entries = <<EmptyEntry>> \o old.entries
           ELSE entries = old.entries

(* C7, witness: get_entry(create=False) put a new entry before a first entry
   that had a version. *)
GetCurrentEntryWitness ==
    /\ call.op = "get_entry" /\ call.version = <<>> /\ call.create = "False"
    /\ old.entries # <<>> /\ old.entries[1].version # None
    /\ Len(entries) = Len(old.entries) + 1

(* C8: complete_latest_message on an entry with no message group prints its
   diagnostic, raises nothing and leaves the entry's messages empty. *)
CompleteWithoutMessageTolerated ==
    (call.op = "complete_latest_message" /\ old.entries[call.idx].messages = <<>>) =>
        /\ exc = "none"
        /\ entries = old.entries
        /\ stderr # <<>>

----------------------------------------------------------------------------
(* Properties of the loop of load, checked under LoadSpec *)

(* the trimmed line starts with the bullet *)
StartsWithBullet(line) == strip(line) # <<>> /\ strip(line)[1] = "*"

(* the line the loop of load takes next, when an entry was started *)
NextLineAfterMarker == pc = "loop" /\ lineno < Len(text) /\ entries # <<>>

(* C11: a line that comes after the first entry marker and whose trimmed
   content starts with the bullet becomes a new message group of the entry
   started last, holding the trimmed remainder after the bullet; it starts no
   entry and raises nothing. *)
BulletLineIsMessage ==
    [][(NextLineAfterMarker /\ StartsWithBullet(text[lineno + 1])) =>
          /\ pc' = "loop"
          /\ entries' = [entries EXCEPT ![Len(entries)].messages =
                            Append(@, <<strip(Tail(strip(text[lineno + 1])))>>)]
      ]_vars

(* C12: a line after an entry marker that is neither a marker nor a bullet
   line goes by the entry started last alone: when that entry has a message
   group the raw line is appended to its last group, and otherwise the raw
   line is appended to additional_content and no entry changes; nothing is
   raised, whatever the messages of the earlier entries. *)
PlainLineRouting ==
    [][(/\ NextLineAfterMarker
        /\ ~BareMarker(text[lineno + 1]) /\ ~DatedMarker(text[lineno + 1])
        /\ ~StartsWithBullet(text[lineno + 1])) =>
          /\ pc' = "loop" /\ exc' = "none" /\ title' = title
          /\ IF entries[Len(entries)].messages # <<>>
             THEN /\ entries' = [entries EXCEPT
                        ![Len(entries)].messages[Len(entries[Len(entries)].messages)] =
                            Append(@, text[lineno + 1])]
                  /\ additional_content' = additional_content
             ELSE /\ entries' = entries
                  /\ additional_content' = additional_content \o text[lineno + 1]
      ]_vars

(* C12, witness: the second entry got a line before its first message, which
   went to additional_content although the first entry had a message, and a
   line after its message, which went to that message. *)
PlainLineRoutingWitness ==
    /\ text = RoutingText /\ pc = "done"
    /\ entries[1].messages = <<<<<<"m">>>>>>
    /\ additional_content = TitleLine
    /\ entries[2].messages = <<<<<<"m">>, TitleLine>>>>

(* C13: when the backing file cannot be opened the constructor raises
   nothing and leaves the model empty: no entry, no additional content and
   the title the constructor set ('' by default). *)
AbsentFileLeavesEmpty ==
    ~exists =>
        /\ pc # "raised" /\ exc = "none"
        /\ entries = <<>> /\ additional_content = <<>> /\ title = old.title
        /\ stream = "unopened"

(* C13, witness: load returned without a file, the title is the default ''. *)
AbsentFileWitness == ~exists /\ pc = "done" /\ call.op = "none" /\ title = <<>>

RECURSIVE TitleLines(_)
(* the non-blank lines that precede the first marker, one after the other *)
TitleLines(lines) ==
    IF lines = <<>> \/ BareMarker(Head(lines)) \/ DatedMarker(Head(lines)) THEN <<>>
    ELSE (IF strip(Head(lines)) = <<>> THEN <<>> ELSE Head(lines)) \o TitleLines(Tail(lines))

(* C15: after load the title is the title given to the constructor followed
   by the non-blank lines that precede the first entry marker, verbatim and
   in order; blank lines and the lines from the first marker on add nothing. *)
TitleIsHead ==
    (exists /\ pc = "done" /\ call.op = "none") => title = old.title \o TitleLines(text)

(* C15, witness: a given title, then a title line, a blank line and a marker. *)
TitleIsHeadWitness ==
    /\ pc = "done" /\ call.op = "none"
    /\ old.title = <<"T", "\n">>
    /\ text = <<TitleLine, BlankLine, CurrentLine>>
    /\ title = <<"T", "\n">> \o TitleLine

----------------------------------------------------------------------------
(* Properties of Version, checked under VersionSpec *)

(* a precedes b in the lexicographic order, a proper prefix first *)
LexLess(a, b) ==
    \E k \in 0..Len(a) :
        /\ k <= Len(b)
        /\ \A j \in 1..k : a[j] = b[j]
        /\ k < Len(b)
        /\ (k < Len(a) => a[k + 1] < b[k + 1])

(* C16: Versions are equal when they have the same items and ordered
   lexicographically by their items, without zero padding: 1.2.0 > 1.1.9,
   1.2 # 1.2.0; str joins the items with '.'. *)
VersionOrder ==
    vcmp.done =>
        /\ vcmp.lt = LexLess(va, vb)
        /\ vcmp.gt = LexLess(vb, va)
        /\ vcmp.eq = (va = vb)
        /\ (va = <<1, 2, 0>> /\ vb = <<1, 1, 9>>) => vcmp.gt /\ ~vcmp.lt
        /\ (va = <<1, 2>> /\ vb = <<1, 2, 0>>) => ~vcmp.eq /\ vcmp.lt
        /\ va # <<>> =>
              /\ split_sep(vcmp.str, ".") = [k \in 1..Len(va) |-> <<Digits[va[k] + 1]>>]
              /\ vcmp.parsed = va

(* C16, witness: 1.2.0 was compared with 1.1.9 and found greater. *)
VersionOrderWitness ==
    vcmp.done /\ va = <<1, 2, 0>> /\ vb = <<1, 1, 9>> /\ vcmp.gt /\ vcmp.str = <<"1", ".", "2", ".", "0">>

----------------------------------------------------------------------------
(* Properties of the calls after load, checked under FullSpec *)

(* C14: every message group of every entry has at least one element. *)
GroupsNotEmpty ==
    \A k \in 1..Len(entries) :
        \A g \in 1..Len(entries[k].messages) : Len(entries[k].messages[g]) >= 1

(* C14, witness: complete_latest_message made a group of two elements. *)
GroupsNotEmptyWitness ==
    /\ call.op = "complete_latest_message" /\ exc = "none"
    /\ Len(entries[call.idx].messages[Len(entries[call.idx].messages)]) >= 2

(* s is the beginning of t *)
IsPrefix(s, t) == Len(s) <= Len(t) /\ SubSeq(t, 1, Len(s)) = s

(* the groups ms are kept in ns: the last one may have more lines, and new
   groups may follow *)
GroupsExtend(ms, ns) ==
    /\ Len(ms) <= Len(ns)
    /\ \A g \in 1..Len(ms) : IF g < Len(ms) THEN ns[g] = ms[g] ELSE IsPrefix(ms[g], ns[g])

(* f is the entry e, with its messages kept *)
EntryExtends(e, f) ==
    f.date = e.date /\ f.version = e.version /\ GroupsExtend(e.messages, f.messages)

(* the entries es are kept in fs in their order, with at most one new entry
   among them *)
Embeds(es, fs) ==
    \/ Len(fs) = Len(es) /\ \A k \in 1..Len(es) : EntryExtends(es[k], fs[k])
    \/ /\ Len(fs) = Len(es) + 1
       /\ \E p \in 1..Len(fs) :
             \A k \in 1..Len(es) : EntryExtends(es[k], fs[IF k < p THEN k ELSE k + 1])

(* C17: no step of load, get_entry, add, add_entry, add_message or
   complete_latest_message removes or reorders entries or messages: the
   entries before the step are a subsequence of those after it, each with its
   messages as a prefix of the new ones, only the last group having grown. *)
EntriesOnlyGrow == [][Embeds(entries, entries')]_vars

(* C17, witness: get_entry put a new entry before an entry that has a
   message, which is kept as the second entry. *)
EntriesOnlyGrowWitness ==
    /\ call.op = "get_entry"
    /\ old.entries # <<>> /\ old.entries[1].messages # <<>>
    /\ Len(entries) = Len(old.entries) + 1
    /\ entries[2] = old.entries[1]

----------------------------------------------------------------------------
(* Properties of write after add, checked under RewriteSpec *)

(* the first line of every message of every entry *)
FirstLines(es) ==
    [k \in 1..Len(es) |-> [g \in 1..Len(es[k].messages) |-> es[k].messages[g][1]]]

(* C18: after load and add(msg, create=True) calls, the text written loads
   into a log with as many entries and the same message first lines, and
   writing that log gives the same text again. *)
RewriteIsFixpoint ==
    call.op = "write" =>
        LET again == load(<<>>, readlines(out))
        IN  /\ again.exc = "none"
            /\ ChangeLog_write(again.title, again.entries) = out
            /\ Len(again.entries) = Len(entries)
            /\ FirstLines(again.entries) = FirstLines(entries)

----------------------------------------------------------------------------
(* Properties of get_entry and write, checked under Spec *)

(* the call get_entry(create=True) *)
IsCreateCurrent(c) == c.op = "get_entry" /\ c.version = <<>> /\ c.create = "True"

(* C19: get_entry(create=True) with no version returns entries[0], which has
   no version, on any log; made a second time right after, it returns the
   same entry and leaves entries as they were. *)
CreateCurrentIdempotent ==
    /\ IsCreateCurrent(call) =>
          exc = "none" /\ ret = 1 /\ entries # <<>> /\ entries[1].version = None
    /\ (IsCreateCurrent(call) /\ IsCreateCurrent(prev)) => entries = old.entries

(* C19, witness: the first of two calls in a row put a head before a dated
   entry of a text with no current entry, the second one added nothing. *)
CreateCurrentIdempotentWitness ==
    /\ IsCreateCurrent(call) /\ IsCreateCurrent(prev)
    /\ \A k \in 1..Len(text) : ~BareMarker(text[k])
    /\ Len(entries) >= 2 /\ entries[1] = EmptyEntry /\ entries[2].version # None
    /\ entries = old.entries

(* C20: a get_entry that raises NoEntry or EntryNotFound, a get_entry of a
   version that returns, and a write leave title, additional_content and
   entries, with every date, version and message, as they were. *)
LookupsLeaveModel ==
    (\/ call.op = "get_entry" /\ exc \in {"NoEntry", "EntryNotFound"}
     \/ call.op = "get_entry" /\ call.version # <<>> /\ exc = "none"
     \/ call.op = "write") => Snapshot = old

(* C20, witness: get_entry(version, create=True) raised NoEntry and made no
   entry. *)
LookupsLeaveModelWitness ==
    /\ call.op = "get_entry" /\ call.create = "True" /\ call.version # <<>>
    /\ exc = "NoEntry" /\ entries = <<>> /\ Snapshot = old

====
